---- MODULE Spec2Model ----
(***************************************************************************)
(* The chat server of sood_chatbot: the per-session history store          *)
(* (chatHistory), the persona registry (presetPrompts) and the request     *)
(* handlers /init, /chat, /voice-settings, /clear-history, /transcribe     *)
(* and /health, with the two outbound calls (completion API, speech API)   *)
(* as awaits at which other requests interleave.                           *)
(*                                                                         *)
(* The repository holds three copies of the server:                        *)
(*   "first"  : src/server.js lines 1-337   (chat keeps the last 6)        *)
(*   "second" : src/server.js lines 339-671 (chat keeps everything)        *)
(*   "part1"  : src/unnamed/part_001        (chat keeps the last 10)       *)
(* The variable `variant` says which copy runs.                            *)
(*                                                                         *)
(* A text is a sequence of characters; a character is a one-token string. *)
(* An optional JavaScript value is None (undefined/null) or Some(x).       *)
(***************************************************************************)
EXTENDS Integers, Sequences, FiniteSets, TLC

VARIABLES
    variant,      \* which copy of the server runs
    envVoiceId,   \* whether process.env.ELEVENLABS_VOICE_ID is set
    inputs,       \* the values the clients and the completion API may send
    budget,       \* how many more requests the run accepts
    heap,         \* array objects: object id -> sequence of history entries
    chatHistory,  \* the Map: session id -> object id, 0 when the key is absent
    req,          \* request slots: the requests in flight, their inputs and locals
    last          \* the request the last step answered, with its response

vars == <<variant, envVoiceId, inputs, budget, heap, chatHistory, req, last>>

----------------------------------------------------------------------------
(* Bounds *)

MaxRequests == 3
MaxInputRequests == 2
MaxDeepRequests == 6
MaxTtsRequests == 1
MaxWords == 120
MaxRaceRequests == 3
MaxLongRaceRequests == 6

Slots == {1, 2}

----------------------------------------------------------------------------
(* JavaScript values *)

None == <<>>
Some(x) == <<x>>

Variants == {"first", "second", "part1"}

\* The sessionId field of a request body: a string, or absent (undefined).
NoSessionId == "<undefined>"
SessionIds == {"s1", "", NoSessionId}

\* if (sessionId): the empty string and undefined are falsy.
FalsySessionId(sessionId) == sessionId \in {"", NoSessionId}

NoRole == "<undefined>"
RoleKeys == {"lawyer", "doctor", "tutor", "engineer", "financial", "writer", "tax"}
\* Property names every object literal inherits from Object.prototype.
InheritedKeys == {"constructor", "toString"}
RoleInputs == {"doctor", "lawyer", "constructor", "bogus", "", NoRole}

TtsInputs == {"true", "false", "<undefined>"}

----------------------------------------------------------------------------
(* Texts *)

Star == "*"
Space == " "

Indices(t) == [i \in 1..Len(t) |-> i]

\* The length of the run of stars that ends at position i.
StarsUpTo(t, i) == Cardinality({j \in 1..i : \A k \in j..i : t[k] = Star})

\* replace(/\*\*/g, ''): the matches are the successive pairs of every run of
\* stars, from its left, so that the last star of a run of odd length stays.
StaysAfterPairs(t, i) ==
    \/ t[i] # Star
    \/ /\ i = Len(t) \/ t[i + 1] # Star
       /\ StarsUpTo(t, i) % 2 = 1
StripPairs(t) ==
    LET kept == SelectSeq(Indices(t), LAMBDA i : StaysAfterPairs(t, i))
    IN [k \in 1..Len(kept) |-> t[kept[k]]]

\* replace(/\*/g, '')
StripStars(t) == SelectSeq(t, LAMBDA c : c # Star)

\* botResponse.replace(/\*\*/g, '').replace(/\*/g, '')
CleanMarkdown(t) == StripStars(StripPairs(t))

\* String.prototype.includes
Includes(t, sub) ==
    \E i \in 0..(Len(t) - Len(sub)) : SubSeq(t, i + 1, i + Len(sub)) = sub

\* botResponse.split(' '): the pieces between the spaces, empty pieces included.
SplitWords(t) ==
    LET spaces == SelectSeq(Indices(t), LAMBDA i : t[i] = Space)
        from(k) == IF k = 1 THEN 1 ELSE spaces[k - 1] + 1
        to(k) == IF k = Len(spaces) + 1 THEN Len(t) ELSE spaces[k] - 1
    IN [k \in 1..(Len(spaces) + 1) |-> SubSeq(t, from(k), to(k))]

RECURSIVE JoinFrom(_, _)
JoinFrom(words, i) ==
    IF i > Len(words) THEN <<>>
    ELSE IF i = Len(words) THEN words[i]
    ELSE words[i] \o <<Space>> \o JoinFrom(words, i + 1)

\* currentChunk.join(' ')
JoinWords(words) == JoinFrom(words, 1)

\* array.slice(-n)
SliceLast(s, n) == IF Len(s) <= n THEN s ELSE SubSeq(s, Len(s) - n + 1, Len(s))

----------------------------------------------------------------------------
(* The persona registry *)

PersonaName(role) ==
    CASE role = "lawyer" -> <<"Saul", Space, "Goodman">>
      [] role = "doctor" -> <<"Dr.", Space, "Sarah", Space, "Chen">>
      [] role = "tutor" -> <<"Professor", Space, "Alex", Space, "Thompson">>
      [] role = "engineer" -> <<"Dr.", Space, "Michael", Space, "Zhang">>
      [] role = "financial" -> <<"Emma", Space, "Richardson">>
      [] role = "writer" -> <<"Isabella", Space, "Martinez">>
      [] role = "tax" -> <<"William", Space, "Turner">>

\* The system text of a persona: one token per distinct string of the source.
\* The first copy's prompts differ from those of the other two copies.
SystemPrompt(v, role) ==
    IF v = "first" THEN <<"first-prompt", role>> ELSE <<"prompt", role>>

\* presetPrompts[role]: an own key gives the persona; a key inherited from
\* Object.prototype gives a function, which is truthy, has no `system`
\* property and has its own name as `name`; any other key gives undefined.
presetPrompts(v, role) ==
    IF role \in RoleKeys
    THEN [found |-> TRUE, name |-> Some(PersonaName(role)),
          system |-> Some(SystemPrompt(v, role))]
    ELSE IF role \in InheritedKeys
    THEN \* a function of Object.prototype: .name is the function's name
         \* (Object for the constructor), .system is undefined
         [found |-> TRUE,
          name |-> Some(IF role = "constructor" THEN <<"Object">> ELSE <<role>>),
          system |-> None]
    ELSE [found |-> FALSE, name |-> None, system |-> None]

\* !role || !presetPrompts[role]
InvalidRole(v, role) ==
    role \in {"", NoRole} \/ ~presetPrompts(v, role).found

\* The persona /chat falls back to.
DefaultPersona(v) ==
    IF v = "first"
    THEN presetPrompts(v, "lawyer")
    ELSE [found |-> TRUE, name |-> Some(<<"SAUL", Space, "GOODMAN">>),
          system |-> Some(SystemPrompt(v, "lawyer"))]

\* selectedRole && presetPrompts[selectedRole] ? presetPrompts[selectedRole] : default
ChatRoleConfig(v, selectedRole) ==
    IF selectedRole \notin {"", NoRole} /\ presetPrompts(v, selectedRole).found
    THEN presetPrompts(v, selectedRole)
    ELSE DefaultPersona(v)

\* roleToVoice exists in the first copy only; the other copies use the name
\* without defining it.
roleToVoiceDefined(v) == v = "first"

GreetingRequest == <<"Hello,", Space, "could", Space, "you", Space, "introduce", Space, "yourself?">>
ConciseSuffix == <<Space, "Always", Space, "be", Space, "concise", Space, "and", Space, "direct.">>
FallbackReply(v) ==
    IF v = "first"
    THEN <<"Sorry,", Space, "I", Space, "couldn't", Space, "generate", Space, "a", Space, "response.">>
    ELSE <<"I", Space, "apologize,", Space, "but", Space, "I", Space, "couldn't", Space, "generate", Space, "a", Space, "response", Space, "at", Space, "the", Space, "moment.">>

\* `Hello! I'm ${roleConfig.name}. ${botResponse}`; an undefined name prints
\* as the word undefined.
Introduce(name, botResponse) ==
    <<"Hello!", Space, "I'm", Space>>
        \o (IF name = None THEN <<"undefined">> ELSE name[1])
        \o <<".", Space>> \o botResponse

Entry(role, content) == [role |-> role, content |-> content]

\* roleConfig.system + " Always be concise and direct."
ConciseSystem(system) ==
    (IF system = None THEN <<"undefined">> ELSE system[1]) \o ConciseSuffix

----------------------------------------------------------------------------
(* History caps and chunking *)

ContextSize == 4
FirstCap == 6
Part1Cap == 10
ChunkSize == 50
RetryAfter == 60

ChunkFullMutant(currentChunk) == Len(currentChunk) > ChunkSize
\* currentChunk.length >= 50
ChunkFull(currentChunk) == Len(currentChunk) >= ChunkSize

\* The iterations of the loop from word i up to the push that fills the
\* chunk, or to the end of the words.
RECURSIVE FillChunk(_, _, _)
FillChunk(words, i, currentChunk) ==
    IF i > Len(words) THEN [chunk |-> currentChunk, next |-> i]
    ELSE LET pushed == Append(currentChunk, words[i])
         IN IF ChunkFull(pushed)
            THEN [chunk |-> pushed, next |-> i + 1]
            ELSE FillChunk(words, i + 1, pushed)

\* for (const word of words) { push; if full, close the chunk }, and after it
\* the chunk that is left, if it has words.
RECURSIVE ChunkLoop(_, _, _, _)
ChunkLoop(words, i, currentChunk, chunks) ==
    LET filled == FillChunk(words, i, currentChunk)
    IN IF ChunkFull(filled.chunk)
       THEN ChunkLoop(words, filled.next, <<>>,
                      Append(chunks, JoinWords(filled.chunk)))
       ELSE IF Len(filled.chunk) > 0
       THEN Append(chunks, JoinWords(filled.chunk))
       ELSE chunks

\* The chunks of a reply, in order.
SpeechChunks(botResponse) == ChunkLoop(SplitWords(botResponse), 1, <<>>, <<>>)

----------------------------------------------------------------------------
(* Array objects and the Map *)

Objs == 1..(Cardinality(SessionIds) + Cardinality(Slots) + 1)

\* The objects some Map entry or some handler's `history` local refers to.
Live(ch, rq) ==
    ({ch[s] : s \in SessionIds} \cup {rq[r].history : r \in Slots}) \ {0}

\* The object a new array literal, spread or slice creates.
NewObj(ch, rq) ==
    CHOOSE o \in Objs :
        /\ o \notin Live(ch, rq)
        /\ \A p \in Objs : p \notin Live(ch, rq) => o <= p

\* Garbage collection: an object nothing refers to is gone.
Collect(h, ch, rq) ==
    [o \in Objs |-> IF o \in Live(ch, rq) THEN h[o] ELSE <<>>]

\* chatHistory.get(sessionId), by value: None when the key is absent.
Stored(h, ch, sessionId) ==
    IF ch[sessionId] = 0 THEN None ELSE Some(h[ch[sessionId]])

\* chatHistory.get(sessionId) || [], by value.
StoredOrEmpty(h, ch, sessionId) ==
    IF ch[sessionId] = 0 THEN <<>> ELSE h[ch[sessionId]]

----------------------------------------------------------------------------
(* Requests *)

IdleReq ==
    [kind |-> "none", pc |-> "idle",
     \* the request body
     sessionId |-> NoSessionId, role |-> NoRole, message |-> None,
     ttsEnabled |-> "<undefined>", voiceId |-> FALSE,
     stability |-> None, similarity_boost |-> None, file |-> FALSE,
     \* the handler's locals
     history |-> 0, isFirstMessage |-> FALSE,
     \* the outbound calls: the completion request, the number of completion
     \* calls, and per generateSpeech call its text and the state of its fetch
     messages |-> <<>>, completionCalls |-> 0, speech |-> <<>>,
     \* whether the completion call was rejected, and the error's message
     failed |-> FALSE, errorMessage |-> None,
     \* the response
     status |-> 0, text |-> None, audio |-> <<>>, retryAfter |-> 0, sent |-> 0,
     \* bookkeeping for the properties: the session's history when the request
     \* arrived, whether another request on the session ran meanwhile, and
     \* whether a /clear-history on the session ran while the request awaited
     \* its completion call
     before |-> None, overlapped |-> FALSE, cleared |-> FALSE]

InFlight(q) == q.pc \in {"completion", "speech"}

\* A server that accepts a request only when no other is in flight.
FreeSlotMutant(r) ==
    /\ r \in inputs.slots
    /\ \A q \in Slots : ~InFlight(req[q])
    /\ budget > 0
\* A request takes the lowest slot that holds no request in flight.
FreeSlot(r) ==
    /\ r \in inputs.slots
    /\ ~InFlight(req[r])
    /\ \A q \in inputs.slots : q < r => InFlight(req[q])
    /\ budget > 0

Overlaps(r, sessionId) ==
    \E q \in Slots : q # r /\ InFlight(req[q]) /\ req[q].sessionId = sessionId

\* The other slots, with those in flight on the session marked as overlapped.
Others(r, sessionId) ==
    [q \in Slots |->
        IF q # r /\ InFlight(req[q]) /\ req[q].sessionId = sessionId
        THEN [req[q] EXCEPT !.overlapped = TRUE]
        ELSE req[q]]

Arrive(r, kind, sessionId) ==
    [IdleReq EXCEPT !.kind = kind, !.sessionId = sessionId,
                    !.before = Stored(heap, chatHistory, sessionId),
                    !.overlapped = Overlaps(r, sessionId)]

\* res.status(status).json(...)
Respond(q, status, text, audio, retryAfter) ==
    [q EXCEPT !.pc = "done", !.status = status, !.text = text,
              !.audio = audio, !.retryAfter = retryAfter, !.sent = @ + 1,
              !.history = 0]

Unchanged == UNCHANGED <<variant, envVoiceId, inputs>>

\* A handler step that ends at an await: slot r holds q.
Continue(r, rest, q, ch, h) ==
    LET rq == [rest EXCEPT ![r] = q]
    IN /\ req' = rq
       /\ chatHistory' = ch
       /\ heap' = Collect(h, ch, rq)
       /\ last' = IdleReq
       /\ Unchanged

\* A handler step that ends with the response: q is the answered request.
Finish(r, rest, q, ch, h) ==
    LET rq == [rest EXCEPT ![r] = IdleReq]
    IN /\ req' = rq
       /\ chatHistory' = ch
       /\ heap' = Collect(h, ch, rq)
       /\ last' = q
       /\ Unchanged

----------------------------------------------------------------------------
(* The outbound services *)

RateLimitExceeded == <<"rate", Space, "limit", Space, "exceeded">>
RateLimitError == Some(<<"429", Space>> \o RateLimitExceeded)
AllErrorMessages ==
    { None,
      RateLimitError,
      Some(<<"Rate", Space, "limit", Space, "reached">>),
      Some(<<"Connection", Space, "error.">>) }

\* What groq.chat.completions.create settles with: a completion whose content
\* is a text or is missing, or an error with or without a message.
CompletionOutcomes ==
    {[ok |-> TRUE, content |-> c, message |-> None] : c \in inputs.replies}
    \cup {[ok |-> FALSE, content |-> None, message |-> m] : m \in inputs.errors}

\* The request q after its completion call settled with out.
Rejected(q, out) ==
    [q EXCEPT !.failed = ~out.ok, !.errorMessage = out.message]

\* The audio the speech API returns for a text.
Audio(text) == <<"audio">> \o text

\* Voice settings remembered from the last accepted /voice-settings.
VoiceSettingMutant(x) ==
    IF last.kind = "voice" /\ last.status = 200 /\ last.stability # None
    THEN last.stability[1]
    ELSE [num |-> 1, den |-> 2]
\* voiceSettings.stability || 0.5: an absent number and 0 are falsy.
VoiceSetting(x) ==
    IF x = None \/ x[1].num = 0 THEN [num |-> 1, den |-> 2] ELSE x[1]

\* The voice_settings of the body generateSpeech posts.
voice_settings(stability, similarity_boost) ==
    [stability |-> VoiceSetting(stability),
     similarity_boost |-> VoiceSetting(similarity_boost)]

----------------------------------------------------------------------------
(* POST /init *)

SeedMutant(system, botResponse) ==
    << Entry("user", Some(GreetingRequest)),
       Entry("system", system),
       Entry("assistant", Some(botResponse)) >>
Seed(system, botResponse) ==
    << Entry("system", system),
       Entry("user", Some(GreetingRequest)),
       Entry("assistant", Some(botResponse)) >>

InitStart(r, sessionId, role) ==
    /\ FreeSlot(r)
    /\ budget' = budget - 1
    /\ LET q == [Arrive(r, "init", sessionId) EXCEPT !.role = role]
           rest == Others(r, sessionId)
       IN IF InvalidRole(variant, role)
          THEN Finish(r, rest, Respond(q, 400, None, <<>>, 0), chatHistory, heap)
          ELSE LET roleConfig == presetPrompts(variant, role)
                   \* chatHistory.set(sessionId, [])
                   o == NewObj(chatHistory, rest)
                   sent == [q EXCEPT !.pc = "completion",
                                     !.completionCalls = @ + 1,
                                     !.messages =
                                        << Entry("system", roleConfig.system),
                                           Entry("user", Some(GreetingRequest)) >>]
               IN Continue(r, rest, sent,
                           [chatHistory EXCEPT ![sessionId] = o],
                           [heap EXCEPT ![o] = <<>>])

\* A catch that puts back the history the session held before the request.
InitFailedMutant(r, q, out) ==
    LET o == NewObj(chatHistory, req)
    IN Finish(r, req, Respond(Rejected(q, out), 500, None, <<>>, 0),
              [chatHistory EXCEPT
                  ![q.sessionId] = IF q.before = None THEN 0 ELSE o],
              IF q.before = None THEN heap
              ELSE [heap EXCEPT ![o] = q.before[1]])
\* The catch of the completion call: 500, the store left as it is.
InitFailed(r, q, out) ==
    Finish(r, req, Respond(Rejected(q, out), 500, None, <<>>, 0),
           chatHistory, heap)

InitCompletionReturns(r, out) ==
    /\ req[r].kind = "init" /\ req[r].pc = "completion"
    /\ UNCHANGED budget
    /\ LET q == req[r]
       IN IF ~out.ok \/ out.content = None
          THEN \* the call failed, or .replace of a missing content threw
               InitFailed(r, q, out)
          ELSE LET roleConfig == presetPrompts(variant, q.role)
                   botResponse == CleanMarkdown(out.content[1])
                   o == NewObj(chatHistory, req)
                   ch == [chatHistory EXCEPT ![q.sessionId] = o]
                   h == [heap EXCEPT ![o] = Seed(roleConfig.system, botResponse)]
               IN IF roleToVoiceDefined(variant)
                  THEN \* generateSpeech(botResponse, {}, roleToVoice[role])
                       Continue(r, req,
                                [q EXCEPT !.pc = "speech",
                                          !.text = Some(botResponse),
                                          !.speech =
                                             <<[text |-> botResponse,
                                                voice_settings |->
                                                   voice_settings(None, None),
                                                st |-> "pending"]>>],
                                ch, h)
                  ELSE \* roleToVoice is not defined: the ReferenceError is caught
                       Finish(r, req, Respond(q, 200, Some(botResponse), <<>>, 0),
                              ch, h)

\* A failed greeting speech surfaced as a failed request.
InitSpeechReturnsMutant(r, ok) ==
    /\ req[r].kind = "init" /\ req[r].pc = "speech"
    /\ UNCHANGED budget
    /\ LET q == [req[r] EXCEPT !.speech[1].st = IF ok THEN "ok" ELSE "failed"]
       IN Finish(r, req,
                 IF ok THEN Respond(q, 200, q.text, <<Audio(q.speech[1].text)>>, 0)
                 ELSE Respond(q, 500, None, <<>>, 0),
                 chatHistory, heap)

\* The greeting's generateSpeech settles; a failure gives null.
InitSpeechReturns(r, ok) ==
    /\ req[r].kind = "init" /\ req[r].pc = "speech"
    /\ UNCHANGED budget
    /\ LET q == [req[r] EXCEPT !.speech[1].st = IF ok THEN "ok" ELSE "failed"]
       IN Finish(r, req,
                 Respond(q, 200, q.text,
                         IF ok THEN <<Audio(q.speech[1].text)>> ELSE <<>>, 0),
                 chatHistory, heap)

----------------------------------------------------------------------------
(* POST /clear-history, POST /voice-settings, GET /health, POST /transcribe *)

\* if (sessionId) { chatHistory.delete(sessionId); }
ClearedMutant(ch, sessionId) == [ch EXCEPT ![sessionId] = 0]
\* chatHistory.clear() in place of delete(sessionId)
ClearedAllMutant(ch, sessionId) == [s \in SessionIds |-> 0]
Cleared(ch, sessionId) ==
    IF FalsySessionId(sessionId) THEN ch ELSE [ch EXCEPT ![sessionId] = 0]

\* The other slots, with those awaiting their completion call on the session
\* marked as overlapped by a /clear-history.
OthersCleared(r, sessionId) ==
    [q \in Slots |->
        IF q # r /\ req[q].pc = "completion" /\ req[q].sessionId = sessionId
        THEN [Others(r, sessionId)[q] EXCEPT !.cleared = TRUE]
        ELSE Others(r, sessionId)[q]]

ClearHistory(r, sessionId) ==
    /\ FreeSlot(r)
    /\ budget' = budget - 1
    /\ Finish(r, OthersCleared(r, sessionId),
              Respond(Arrive(r, "clear", sessionId), 200, None, <<>>, 0),
              Cleared(chatHistory, sessionId), heap)

\* A JSON number: num/den with den > 0; None when the field is absent.
\* A comparison with undefined is false.
Numbers == {None} \cup {Some([num |-> n, den |-> 2]) : n \in -1..3}
Below0(x) == x # None /\ x[1].num < 0
Above1Mutant(x) == x # None /\ x[1].num >= x[1].den
Above1(x) == x # None /\ x[1].num > x[1].den

\* stability < 0 || stability > 1 || similarity_boost < 0 || similarity_boost > 1
OutOfRange(stability, similarity_boost) ==
    \/ Below0(stability) \/ Above1(stability)
    \/ Below0(similarity_boost) \/ Above1(similarity_boost)

VoiceSettings(r, stability, similarity_boost) ==
    /\ FreeSlot(r)
    /\ budget' = budget - 1
    /\ LET q == [IdleReq EXCEPT !.kind = "voice",
                                !.stability = stability,
                                !.similarity_boost = similarity_boost]
       IN Finish(r, req,
                 IF OutOfRange(stability, similarity_boost)
                 THEN Respond(q, 400, None, <<>>, 0)
                 ELSE Respond(q, 200, None, <<>>, 0),
                 chatHistory, heap)

Health(r) ==
    /\ FreeSlot(r)
    /\ budget' = budget - 1
    /\ Finish(r, req,
              Respond([IdleReq EXCEPT !.kind = "health"], 200, None, <<>>, 0),
              chatHistory, heap)

ProcessedText == <<"Audio", Space, "received", Space, "and", Space, "processed">>

\* if (!req.file) 400, else the fixed text
Transcribe(r, file) ==
    /\ FreeSlot(r)
    /\ budget' = budget - 1
    /\ LET q == [IdleReq EXCEPT !.kind = "transcribe", !.file = file]
       IN Finish(r, req,
                 IF file
                 THEN Respond(q, 200, Some(ProcessedText), <<>>, 0)
                 ELSE Respond(q, 400, None, <<>>, 0),
                 chatHistory, heap)

----------------------------------------------------------------------------
(* POST /chat *)

\* !message
NoMessageMutant(message) == message = None
NoMessage(message) == message = None \/ message[1] = <<>>

\* The messages of the completion request.
ChatMessages(v, roleConfig, history, message) ==
    IF v = "first"
    THEN <<Entry("system", Some(ConciseSystem(roleConfig.system)))>>
            \o SliceLast(history, ContextSize)
            \o <<Entry("user", message)>>
    ELSE <<Entry("system", roleConfig.system)>>
            \o history
            \o <<Entry("user", message)>>

ChatStart(r, sessionId, selectedRole, message, ttsEnabled, voiceId, stability, similarity_boost) ==
    /\ FreeSlot(r)
    /\ budget' = budget - 1
    /\ LET q == [Arrive(r, "chat", sessionId) EXCEPT
                    !.role = selectedRole, !.message = message,
                    !.ttsEnabled = ttsEnabled, !.voiceId = voiceId,
                    \* voiceSettings: { stability, similarity_boost }
                    !.stability = stability,
                    !.similarity_boost = similarity_boost]
           rest == Others(r, sessionId)
       IN IF NoMessage(message)
          THEN Finish(r, rest, Respond(q, 400, None, <<>>, 0), chatHistory, heap)
          ELSE LET \* chatHistory.get(sessionId) || []
                   known == chatHistory[sessionId] # 0
                   o == IF known THEN chatHistory[sessionId]
                        ELSE NewObj(chatHistory, rest)
                   h == IF known THEN heap ELSE [heap EXCEPT ![o] = <<>>]
                   roleConfig == ChatRoleConfig(variant, selectedRole)
                   sent == [q EXCEPT
                              !.pc = "completion",
                              !.history = o,
                              !.isFirstMessage = (Len(h[o]) = 0),
                              !.completionCalls = @ + 1,
                              !.messages = ChatMessages(variant, roleConfig,
                                                        h[o], message)]
               IN Continue(r, rest, sent, chatHistory, h)

\* error.message && error.message.includes('rate limit exceeded')
RateLimited(out) ==
    out.message # None /\ Includes(out.message[1], RateLimitExceeded)

\* The reply of a completion that returned.
Reply(v, q, out) ==
    IF v \in {"first", "second"}
    THEN \* content || fallback: a missing or empty content is falsy
         IF out.content = None \/ out.content[1] = <<>>
         THEN FallbackReply(v)
         ELSE out.content[1]
    ELSE LET roleConfig == ChatRoleConfig(v, q.role)
             name == IF roleConfig.name = None THEN <<"undefined">>
                     ELSE roleConfig.name[1]
             botResponse ==
                IF q.isFirstMessage /\ ~Includes(out.content[1], name)
                THEN Introduce(roleConfig.name, out.content[1])
                ELSE out.content[1]
         IN CleanMarkdown(botResponse)

\* The entries the handler stores: the history it read and the two new
\* turns, cut as the copy cuts them.
KeptMutant(v, entries) == SubSeq(entries, 2, Len(entries))
\* A cap of an odd number of entries.
KeptOddMutant(v, entries) == SliceLast(entries, FirstCap - 1)
\* A handler that stores its own two turns only.
KeptPairMutant(v, entries) == SubSeq(entries, Len(entries) - 1, Len(entries))
Kept(v, entries) ==
    CASE v = "first" -> SliceLast(entries, FirstCap)
      [] v = "second" -> entries
      [] v = "part1" -> SliceLast(entries, Part1Cap)

\* A handler that appends to a copy of the array it read.
PushedMutant(v, h, o, turns) == h
\* history.push(user turn); history.push(assistant turn): the first and
\* second copies push onto the array they read, part1 spreads it into a new
\* array and leaves it as it is.
Pushed(v, h, o, turns) ==
    IF v = "part1" THEN h ELSE [h EXCEPT ![o] = @ \o turns]

\* The texts generateSpeech is called with.
SpeechTextsMutant(v, q, reply) ==
    IF q.ttsEnabled = "false" THEN <<>>
    ELSE CASE v = "first" -> IF q.voiceId THEN <<reply>> ELSE <<>>
           [] v = "second" -> <<reply>>
           [] v = "part1" -> SpeechChunks(reply)
SpeechTexts(v, q, reply) ==
    IF q.ttsEnabled # "true" THEN <<>>
    ELSE CASE v = "first" -> IF q.voiceId THEN <<reply>> ELSE <<>>
           [] v = "second" -> <<reply>>
           [] v = "part1" -> SpeechChunks(reply)

\* voiceId || process.env.ELEVENLABS_VOICE_ID; the first copy's generateSpeech
\* does not look at the environment and is called with a voiceId only.
HasVoice(v, q) == q.voiceId \/ (v # "first" /\ envVoiceId)

\* A second completion call after the first was rejected.
ChatFailedMutant(r, q, out) ==
    IF q.completionCalls < 2
    THEN Continue(r, req, [q EXCEPT !.completionCalls = @ + 1], chatHistory, heap)
    ELSE Finish(r, req, Respond(Rejected(q, out), 500, None, <<>>, 0),
                chatHistory, heap)
\* A 429 branch without its return: the 500 is sent as well.
ChatFailedTwiceMutant(r, q, out) ==
    IF variant # "part1" /\ RateLimited(out)
    THEN Finish(r, req,
                Respond(Respond(Rejected(q, out), 429, None, <<>>, RetryAfter),
                        500, None, <<>>, 0),
                chatHistory, heap)
    ELSE Finish(r, req, Respond(Rejected(q, out), 500, None, <<>>, 0),
                chatHistory, heap)
\* A catch that keeps the user's turn of the failed exchange.
ChatFailedStoresMutant(r, q, out) ==
    LET n == NewObj(chatHistory, req)
    IN Finish(r, req, Respond(Rejected(q, out), 500, None, <<>>, 0),
              [chatHistory EXCEPT ![q.sessionId] = n],
              [heap EXCEPT ![n] = heap[q.history]
                                     \o <<Entry("user", q.message)>>])
\* The catch of the completion call: 429 on a rate-limit message in the two
\* copies of server.js, 500 otherwise and always in part1.
ChatFailed(r, q, out) ==
    IF variant # "part1" /\ RateLimited(out)
    THEN Finish(r, req, Respond(Rejected(q, out), 429, None, <<>>, RetryAfter),
                chatHistory, heap)
    ELSE Finish(r, req, Respond(Rejected(q, out), 500, None, <<>>, 0),
                chatHistory, heap)

ChatCompletionReturns(r, out) ==
    /\ req[r].kind = "chat" /\ req[r].pc = "completion"
    /\ UNCHANGED budget
    /\ LET q == req[r]
       IN IF ~out.ok
          THEN ChatFailed(r, q, out)
          ELSE IF variant = "part1" /\ out.content = None
          THEN \* .includes or .replace of a missing content threw
               Finish(r, req, Respond(q, 500, None, <<>>, 0), chatHistory, heap)
          ELSE LET reply == Reply(variant, q, out)
                   turns == << Entry("user", q.message),
                               Entry("assistant", Some(reply)) >>
                   o == q.history
                   pushed == Pushed(variant, heap, o, turns)
                   n == IF variant = "second" THEN o
                        ELSE NewObj(chatHistory, req)
                   h == IF variant = "second" THEN pushed
                        ELSE [pushed EXCEPT ![n] =
                                  Kept(variant, heap[o] \o turns)]
                   ch == [chatHistory EXCEPT ![q.sessionId] = n]
                   texts == SpeechTexts(variant, q, reply)
                   calls == [i \in 1..Len(texts) |->
                               [text |-> texts[i],
                                voice_settings |->
                                   voice_settings(q.stability,
                                                  q.similarity_boost),
                                st |-> IF HasVoice(variant, q) THEN "pending"
                                       ELSE "novoice"]]
                   replied == [q EXCEPT !.text = Some(reply), !.speech = calls,
                                        !.history = 0]
               IN IF texts # <<>> /\ HasVoice(variant, q)
                  THEN Continue(r, req, [replied EXCEPT !.pc = "speech"], ch, h)
                  ELSE Finish(r, req, Respond(replied, 200, Some(reply), <<>>, 0),
                              ch, h)

\* A failed speech call surfaced as a failed request.
ChatSpeechReturnsMutant(r, i, ok) ==
    /\ req[r].kind = "chat" /\ req[r].pc = "speech"
    /\ i \in 1..Len(req[r].speech)
    /\ req[r].speech[i].st = "pending"
    /\ UNCHANGED budget
    /\ LET q == [req[r] EXCEPT !.speech[i].st = IF ok THEN "ok" ELSE "failed"]
       IN IF ~ok
          THEN Finish(r, req, Respond(q, 500, None, <<>>, 0), chatHistory, heap)
          ELSE IF \A j \in 1..Len(q.speech) : q.speech[j].st = "ok"
          THEN Finish(r, req,
                      Respond(q, 200, q.text,
                              [j \in 1..Len(q.speech) |-> Audio(q.speech[j].text)],
                              0),
                      chatHistory, heap)
          ELSE Continue(r, req, q, chatHistory, heap)

\* A handler that waits for every call and returns the audio of the chunks
\* that were synthesized.
ChatSpeechPartialMutant(r, i, ok) ==
    /\ req[r].kind = "chat" /\ req[r].pc = "speech"
    /\ i \in 1..Len(req[r].speech)
    /\ req[r].speech[i].st = "pending"
    /\ UNCHANGED budget
    /\ LET q == [req[r] EXCEPT !.speech[i].st = IF ok THEN "ok" ELSE "failed"]
           done == {j \in 1..Len(q.speech) : q.speech[j].st = "ok"}
       IN IF \E j \in 1..Len(q.speech) : q.speech[j].st = "pending"
          THEN Continue(r, req, q, chatHistory, heap)
          ELSE Finish(r, req,
                      Respond(q, 200, q.text,
                              [j \in 1..Cardinality(done) |->
                                  Audio(q.speech[
                                      CHOOSE k \in done :
                                          Cardinality({m \in done : m < k})
                                              = j - 1].text)],
                              0),
                      chatHistory, heap)

\* One fetch of the speech API settles. The first failure ends the wait
\* (generateSpeech returns null, or Promise.all rejects); otherwise the
\* response waits for every call.
ChatSpeechReturns(r, i, ok) ==
    /\ req[r].kind = "chat" /\ req[r].pc = "speech"
    /\ i \in 1..Len(req[r].speech)
    /\ req[r].speech[i].st = "pending"
    /\ UNCHANGED budget
    /\ LET q == [req[r] EXCEPT !.speech[i].st = IF ok THEN "ok" ELSE "failed"]
       IN IF ~ok
          THEN Finish(r, req, Respond(q, 200, q.text, <<>>, 0), chatHistory, heap)
          ELSE IF \A j \in 1..Len(q.speech) : q.speech[j].st = "ok"
          THEN Finish(r, req,
                      Respond(q, 200, q.text,
                              [j \in 1..Len(q.speech) |-> Audio(q.speech[j].text)],
                              0),
                      chatHistory, heap)
          ELSE Continue(r, req, q, chatHistory, heap)

----------------------------------------------------------------------------
(* The server *)

MaxChunks == (MaxWords + 8) \div ChunkSize + 1

Next ==
    \/ \E r \in Slots, s \in inputs.sessionIds, role \in inputs.roles :
          InitStart(r, s, role)
    \/ \E r \in Slots, out \in CompletionOutcomes : InitCompletionReturns(r, out)
    \/ \E r \in Slots, ok \in BOOLEAN : InitSpeechReturns(r, ok)
    \/ \E r \in Slots, s \in inputs.sessionIds, role \in inputs.roles,
          m \in inputs.messages, t \in inputs.tts, v \in inputs.voiceIds,
          a \in inputs.numbers, b \in inputs.numbers :
          ChatStart(r, s, role, m, t, v, a, b)
    \/ \E r \in Slots, out \in CompletionOutcomes : ChatCompletionReturns(r, out)
    \/ \E r \in Slots, i \in 1..MaxChunks, ok \in BOOLEAN :
          ChatSpeechReturns(r, i, ok)
    \/ \E r \in Slots, s \in inputs.sessionIds : ClearHistory(r, s)
    \/ \E r \in Slots, a \in inputs.numbers, b \in inputs.numbers :
          VoiceSettings(r, a, b)
    \/ \E r \in Slots : Health(r)
    \/ \E r \in Slots, f \in BOOLEAN : Transcribe(r, f)

Start(in, env, n) ==
    /\ variant \in Variants
    /\ envVoiceId \in env
    /\ inputs = in
    /\ budget = n
    /\ heap = [o \in Objs |-> <<>>]
    /\ chatHistory = [s \in SessionIds |-> 0]
    /\ req = [r \in Slots |-> IdleReq]
    /\ last = IdleReq

\* The least a request can carry: one session, one persona, one message, one
\* reply, one error, speech off.
Plain ==
    [slots |-> {1}, sessionIds |-> {"s1"}, roles |-> {"doctor"},
     messages |-> {Some(<<"m">>)}, replies |-> {Some(<<"a">>)}, errors |-> {None},
     tts |-> {"false"}, voiceIds |-> {TRUE}, numbers |-> {None}]

\* Overlapping requests on two sessions, one of them with the empty id.
Init ==
    Start([Plain EXCEPT !.slots = Slots, !.sessionIds = {"s1", ""},
                        !.tts = {"true", "false"}],
          {FALSE}, MaxRequests)

Spec == Init /\ [][Next]_vars

\* Each input in turn drawn from all its values, one request at a time; and
\* voice settings beside a /chat with speech, two requests at a time.
Replies ==
    { None, Some(<<>>), Some(<<"a">>), Some(<<Star, Star>>),
      Some(<<Star, Star, "b", Star, Space, "c", Star, Star, Star>>),
      Some(<<"Dr.", Space, "Sarah", Space, "Chen", Space, "here">>) }
Messages == { None, Some(<<>>), Some(<<"m">>) }
InputProfiles ==
    { [Plain EXCEPT !.roles = RoleInputs],
      [Plain EXCEPT !.messages = Messages, !.sessionIds = SessionIds],
      [Plain EXCEPT !.replies = Replies, !.errors = AllErrorMessages,
                    !.roles = {"doctor", NoRole}],
      [Plain EXCEPT !.tts = TtsInputs, !.voiceIds = BOOLEAN],
      [Plain EXCEPT !.numbers = Numbers],
      [Plain EXCEPT !.slots = Slots, !.tts = {"true"},
                    !.numbers = {None, Some([num |-> 2, den |-> 2])}] }

InitInputs == \E in \in InputProfiles : Start(in, BOOLEAN, MaxInputRequests)

SpecInputs == InitInputs /\ [][Next]_vars

\* Long runs of requests on one session.
InitDeep ==
    Start([Plain EXCEPT !.messages = {Some(<<"m">>), Some(<<"n">>)},
                        !.tts = {"true", "false"}],
          {FALSE}, MaxDeepRequests)

SpecDeep == InitDeep /\ [][Next]_vars

\* Overlapping requests on one session, with two messages to tell the turns
\* apart and with speech on, so that a /chat awaits once more after its write.
InitRace ==
    Start([Plain EXCEPT !.slots = Slots,
                        !.messages = {Some(<<"m">>), Some(<<"n">>)},
                        !.tts = {"true"}],
          {FALSE}, MaxRaceRequests)

SpecRace == InitRace /\ [][Next]_vars

\* Long runs of overlapping requests on one session.
InitLongRace ==
    Start([Plain EXCEPT !.slots = Slots, !.tts = {"true"}],
          {FALSE}, MaxLongRaceRequests)

SpecLongRace == InitLongRace /\ [][Next]_vars

\* Requests whose reply has from 1 to MaxWords words.
Words(n) == [i \in 1..(2 * n - 1) |-> IF i % 2 = 1 THEN "w" ELSE Space]
LongReplies ==
    {Some(Words(n)) : n \in 1..MaxWords}
    \cup { Some(<<>>), Some(<<"w", Space, Space, "w">>),
           Some(<<Star, "w", Star, Space, "w">>) }

InitTts ==
    \E reply \in LongReplies :
        Start([Plain EXCEPT !.replies = {reply}, !.tts = TtsInputs,
                            !.voiceIds = BOOLEAN,
                            !.errors = {None, RateLimitError}],
              BOOLEAN, MaxTtsRequests)

SpecTts == InitTts /\ [][Next]_vars

\* An outbound call of the request in slot r settles and its handler resumes.
Returns(r) ==
    \/ \E out \in CompletionOutcomes : InitCompletionReturns(r, out)
    \/ \E ok \in BOOLEAN : InitSpeechReturns(r, ok)
    \/ \E out \in CompletionOutcomes : ChatCompletionReturns(r, out)
    \/ \E i \in 1..MaxChunks, ok \in BOOLEAN : ChatSpeechReturns(r, i, ok)

\* A request arrives and slot r takes it.
Arrives(r) ==
    \/ \E s \in inputs.sessionIds, role \in inputs.roles : InitStart(r, s, role)
    \/ \E s \in inputs.sessionIds, role \in inputs.roles,
          m \in inputs.messages, t \in inputs.tts, v \in inputs.voiceIds,
          a \in inputs.numbers, b \in inputs.numbers :
          ChatStart(r, s, role, m, t, v, a, b)
    \/ \E s \in inputs.sessionIds : ClearHistory(r, s)
    \/ \E a \in inputs.numbers, b \in inputs.numbers : VoiceSettings(r, a, b)
    \/ Health(r)
    \/ \E f \in BOOLEAN : Transcribe(r, f)

\* The outbound calls of the request in slot 2 settle and the event loop then
\* runs its continuation; the calls of the request in slot 1 may never settle.
SpecStall == Init /\ [][Next]_vars /\ WF_vars(Returns(2))

\* The requests of SpecInputs, with every outbound call settling: a settled
\* promise's continuation is run by the event loop.
SpecInputsFair ==
    InitInputs /\ [][Next]_vars /\ \A r \in Slots : WF_vars(Returns(r))

----------------------------------------------------------------------------
(* Properties *)

\* The Map by value: per session id its stored history, None without entry.
StoreValue == [s \in SessionIds |-> Stored(heap, chatHistory, s)]

\* The history a request found when it arrived, an absent one taken as empty.
Prior(q) == IF q.before = None THEN <<>> ELSE q.before[1]

\* The chats whose history write has happened and that no other request on
\* their session has overlapped: the one just answered, and those awaiting speech.
Written ==
    {q \in {last} \cup {req[r] : r \in Slots} :
        /\ q.kind = "chat" /\ q.text # None
        /\ q.pc = "speech" \/ (q.pc = "done" /\ q.status = 200)}

\* The cap the specification states for a copy: 6 for the first copy, 10 for
\* part1; for the second copy the larger of the two.
StatedCap == IF variant = "first" THEN FirstCap ELSE Part1Cap

\* C1: in every reachable state the history stored for every session has at
\* most N entries, N being the cap of the copy (6 or 10).
C1_HistoryWithinCap ==
    \A s \in SessionIds : Len(StoredOrEmpty(heap, chatHistory, s)) <= StatedCap

\* C2: after a successful /chat that overlaps no other request on its
\* session, the stored history is the last N entries of the history found,
\* the new user turn and the new assistant turn, in that order.
C2_ChatAppendsAndCuts ==
    \A q \in Written :
        ~q.overlapped =>
            Stored(heap, chatHistory, q.sessionId) =
                Some(SliceLast(Prior(q) \o << Entry("user", q.message),
                                              Entry("assistant", q.text) >>,
                               StatedCap))

\* The stored history of the session of q is the three-entry seed of its
\* persona, the assistant entry being the greeting returned.
SeedStored(q) ==
    LET h == StoredOrEmpty(heap, chatHistory, q.sessionId)
    IN /\ Len(h) = 3
       /\ h[1] = Entry("system", Some(SystemPrompt(variant, q.role)))
       /\ h[2] = Entry("user", Some(GreetingRequest))
       /\ h[3] = Entry("assistant", q.text)

\* C3 as stated: after a successful /init with a valid role, whatever the
\* session held before, its stored history is the three-entry seed.
C3_InitStoresSeed ==
    (last.kind = "init" /\ last.status = 200 /\ last.role \in RoleKeys)
        => SeedStored(last)

\* C3 amended: the same, for an /init that overlaps no other request on the
\* session.
C3_InitStoresSeedAlone ==
    (last.kind = "init" /\ last.status = 200 /\ last.role \in RoleKeys
        /\ ~last.overlapped)
        => SeedStored(last)

C3_Witness ==
    /\ last.kind = "init" /\ last.status = 200 /\ last.role \in RoleKeys
    /\ ~last.overlapped
    /\ Len(Prior(last)) > 0
    /\ SeedStored(last)

\* C4: an /init whose role is absent or is not one of the seven registry keys
\* is answered 400, issues no completion or speech call and leaves the
\* session's history as it was.
C4_InvalidRoleRejected ==
    (last.kind = "init" /\ last.role \notin RoleKeys) =>
        /\ last.status = 400
        /\ last.completionCalls = 0
        /\ last.speech = <<>>
        /\ Stored(heap, chatHistory, last.sessionId) = last.before

\* C5: a /chat whose message is missing or empty is answered 400 at once,
\* with no completion call, no speech call and the store unchanged.
C5_MissingMessageRejected ==
    [][ (last'.kind = "chat" /\ last'.message \in {None, Some(<<>>)}) =>
            /\ last'.status = 400
            /\ last'.completionCalls = 0
            /\ last'.speech = <<>>
            /\ StoreValue' = StoreValue ]_vars

C5_Witness ==
    /\ last.kind = "chat" /\ last.message = Some(<<>>)
    /\ last.status = 400
    /\ last.before = None
    /\ chatHistory[last.sessionId] = 0
    /\ \E s \in SessionIds : chatHistory[s] # 0

\* C6: /clear-history on a session that has an entry removes the entry, and
\* the next successful /chat on the session sends only the system prompt and
\* the new message and stores only the new turn pair.
C6_ClearRemovesEntry ==
    /\ (last.kind = "clear" /\ last.before # None)
           => Stored(heap, chatHistory, last.sessionId) = None
    /\ (last.kind = "chat" /\ last.status = 200 /\ last.before = None
            /\ ~last.overlapped)
           => /\ Len(last.messages) = 2
              /\ last.messages[2] = Entry("user", last.message)
              /\ Stored(heap, chatHistory, last.sessionId) =
                     Some(<< Entry("user", last.message),
                             Entry("assistant", last.text) >>)

\* C7: /clear-history always answers success; when the session has no entry,
\* or no sessionId is given, the store is left as it was and gets no entry;
\* a second clear of the same session right after a first changes nothing.
C7_ClearAlwaysSucceeds ==
    [][ last'.kind = "clear" =>
            /\ last'.status = 200
            /\ (last'.before = None \/ last'.sessionId \in {"", NoSessionId})
                   => StoreValue' = StoreValue
            /\ (last.kind = "clear" /\ last.sessionId = last'.sessionId)
                   => StoreValue' = StoreValue ]_vars

C7_Witness ==
    /\ last.kind = "clear" /\ last.status = 200
    /\ last.before = None
    /\ last.sessionId = "s1"
    /\ Len(StoredOrEmpty(heap, chatHistory, "")) > 0

\* A setting below 0 or above 1; an absent setting is neither.
Outside01(x) == x # None /\ (x[1].num < 0 \/ x[1].num > x[1].den)

\* C8: /voice-settings answers 400 exactly when stability or similarity_boost
\* is below 0 or above 1, and success otherwise; 0 and 1 are accepted.
C8_VoiceSettingsRange ==
    last.kind = "voice" =>
        /\ last.status \in {200, 400}
        /\ last.status = 400 <=>
               (Outside01(last.stability) \/ Outside01(last.similarity_boost))

C8_Witness ==
    /\ last.kind = "voice" /\ last.status = 200
    /\ last.stability = Some([num |-> 0, den |-> 2])
    /\ last.similarity_boost = Some([num |-> 2, den |-> 2])

\* C9: a /chat whose ttsEnabled is false or absent makes no speech call and
\* returns an empty audio list, whatever the reply, voice id or settings.
C9_NoSpeechWithoutTts ==
    \A q \in {last} \cup {req[r] : r \in Slots} :
        (q.kind = "chat" /\ q.ttsEnabled # "true") =>
            /\ q.speech = <<>>
            /\ q.audio = <<>>
            /\ q.pc # "speech"

C9_Witness ==
    /\ last.kind = "chat" /\ last.status = 200
    /\ last.ttsEnabled = "<undefined>"
    /\ last.voiceId /\ envVoiceId
    /\ Len(SplitWords(last.text[1])) > ChunkSize
    /\ last.speech = <<>> /\ last.audio = <<>>

\* C10: in the copy that chunks, a /chat with ttsEnabled true whose reply has
\* w >= 1 words makes ceil(w/50) speech calls; every chunk but the last has
\* 50 words, the last the remaining ones; the chunks in order are the words
\* of the reply; the audio list, when returned, follows the chunk order.
C10_ChunkedSpeech ==
    \A q \in Written :
        (variant = "part1" /\ q.ttsEnabled = "true") =>
            LET words == SplitWords(q.text[1])
                w == Len(words)
                n == (w + 49) \div 50
                upto(i) == IF 50 * i < w THEN 50 * i ELSE w
            IN /\ w >= 1
               /\ Len(q.speech) = n
               /\ \A i \in 1..Len(q.speech) :
                      /\ Len(SplitWords(q.speech[i].text)) =
                             IF i < n THEN 50 ELSE w - 50 * (n - 1)
                      /\ SplitWords(q.speech[i].text) =
                             SubSeq(words, 50 * (i - 1) + 1, upto(i))
               /\ (q.pc = "done" /\ q.audio # <<>>) =>
                      q.audio = [i \in 1..n |-> Audio(q.speech[i].text)]

C10_Witness ==
    /\ variant = "part1"
    /\ last.kind = "chat" /\ last.status = 200 /\ last.ttsEnabled = "true"
    /\ Len(SplitWords(last.text[1])) = 120
    /\ Len(last.speech) = 3
    /\ Len(SplitWords(last.speech[1].text)) = 50
    /\ Len(SplitWords(last.speech[2].text)) = 50
    /\ Len(SplitWords(last.speech[3].text)) = 20
    /\ Len(last.audio) = 3

\* C11: when the completion call of a /chat is rejected, the answer is 429
\* with a retry interval if the error signals rate limiting (its message
\* holds 'rate limit exceeded'), and 500 without one in every other case.
C11_RateLimitTold ==
    (last.kind = "chat" /\ last.failed) =>
        IF last.errorMessage # None
              /\ Includes(last.errorMessage[1], RateLimitExceeded)
        THEN last.status = 429 /\ last.retryAfter > 0
        ELSE last.status = 500 /\ last.retryAfter = 0

\* The requests in flight and the one just answered.
Requests == {last} \cup {req[r] : r \in Slots}

\* The number of chunks of a text of w words.
ChunkCount(text) == (Len(SplitWords(text)) + 49) \div 50

\* The most speech calls a request may make: one per chunk in the copy that
\* chunks, one otherwise, none without a reply.
SpeechCallLimit(q) ==
    IF q.text = None THEN 0
    ELSE IF variant = "part1" /\ q.kind = "chat" THEN ChunkCount(q.text[1])
    ELSE 1

\* C12: nothing is retried: a request makes at most one completion call, also
\* after a rejection or a rate-limit signal, and at most one speech call per
\* chunk; a speech call that has settled is not issued again.
C12_NoRetries ==
    [][ /\ \A q \in Requests' :
              /\ q.completionCalls <= 1
              /\ Len(q.speech) <= SpeechCallLimit(q)
        /\ \A r \in Slots :
              (req[r].pc = "speech" /\ req'[r].pc = "speech") =>
                  /\ Len(req'[r].speech) = Len(req[r].speech)
                  /\ \A i \in 1..Len(req[r].speech) :
                        /\ req'[r].speech[i].text = req[r].speech[i].text
                        /\ req[r].speech[i].st # "pending" =>
                               req'[r].speech[i].st = req[r].speech[i].st ]_vars

C12_Witness ==
    /\ last.kind = "chat" /\ last.status = 429
    /\ last.failed /\ last.completionCalls = 1
    /\ last.speech = <<>>

\* The history of q's session in store (h, ch) ends with q's two turns.
EndsWithTurns(h, ch, q) ==
    LET stored == StoredOrEmpty(h, ch, q.sessionId)
        n == Len(stored)
    IN /\ n >= 2
       /\ stored[n - 1] = Entry("user", q.message)
       /\ stored[n] = Entry("assistant", q.text)

\* The request of slot r after the step in which its completion call settled.
Settled(r, rq, answered) == IF rq[r].pc = "speech" THEN rq[r] ELSE answered

\* C13: a /chat whose completion call succeeded and whose speech synthesis
\* fails is answered 200 with the reply text; the step that issues the speech
\* calls has already stored the new user and assistant turns.
C13_SpeechFailureKeepsReply ==
    [][ /\ \A r \in Slots :
              (req[r].kind = "chat" /\ req[r].pc = "completion"
                  /\ req'[r].pc # "completion"
                  /\ Settled(r, req', last').speech # <<>>)
                  => EndsWithTurns(heap', chatHistory', Settled(r, req', last'))
        /\ (last'.kind = "chat"
              /\ \E i \in 1..Len(last'.speech) :
                    last'.speech[i].st \in {"failed", "novoice"})
              => /\ last'.status = 200
                 /\ last'.text # None
                 /\ last'.audio = <<>>
                 /\ \A r \in Slots :
                       req[r].pc = "speech" /\ req'[r].pc # "speech"
                           => last'.text = req[r].text /\ StoreValue' = StoreValue
      ]_vars

C13_Witness ==
    /\ last.kind = "chat" /\ last.status = 200
    /\ Len(last.speech) = 3
    /\ last.speech[2].st = "failed"
    /\ last.text # None /\ last.audio = <<>>
    /\ EndsWithTurns(heap, chatHistory, last)

\* The history of q's session in store (h, ch) is the three-entry seed of
\* q's persona with q's text as the greeting.
SeedIn(h, ch, q) ==
    Stored(h, ch, q.sessionId) =
        Some(<< Entry("system", Some(SystemPrompt(variant, q.role))),
                Entry("user", Some(GreetingRequest)),
                Entry("assistant", q.text) >>)

\* C14: an /init whose completion call succeeded and whose greeting speech
\* fails is answered 200 with the greeting text, and the three-entry seed is
\* stored: it is written in the step in which the completion settles, and the
\* step that answers after the speech call leaves the store as it is.
C14_GreetingSpeechFailureSwallowed ==
    [][ /\ \A r \in Slots :
              (req[r].kind = "init" /\ req[r].pc = "completion"
                  /\ req[r].role \in RoleKeys
                  /\ req'[r].pc # "completion"
                  /\ Settled(r, req', last').text # None)
                  => SeedIn(heap', chatHistory', Settled(r, req', last'))
        /\ (last'.kind = "init" /\ last'.text # None /\ last'.audio = <<>>)
              => last'.status = 200
        /\ \A r \in Slots :
              (req[r].kind = "init" /\ req[r].pc = "speech"
                  /\ req'[r].pc # "speech")
                  => /\ last'.status = 200
                     /\ last'.text = req[r].text
                     /\ StoreValue' = StoreValue
      ]_vars

C14_Witness ==
    /\ last.kind = "init" /\ last.status = 200
    /\ Len(last.speech) = 1 /\ last.speech[1].st = "failed"
    /\ last.text # None /\ last.audio = <<>>
    /\ SeedIn(heap, chatHistory, last)

\* The system prompt the completion request of a /chat with this role is to
\* carry: the persona's prompt for a registry key, the lawyer's otherwise.
PersonaPrompt(role) ==
    IF role \in RoleKeys THEN SystemPrompt(variant, role)
    ELSE SystemPrompt(variant, "lawyer")

\* C15: a /chat that carries a message is never answered 400 whatever its
\* role; the system prompt of its completion request is the prompt of the
\* persona of selectedRole when that is a registry key, and the prompt of the
\* default lawyer persona when it is absent or is not a registry key (the
\* first copy appends its fixed sentence to the prompt).
C15_ChatPersonaOrDefault ==
    \A q \in Requests :
        (q.kind = "chat" /\ q.message \notin {None, Some(<<>>)}) =>
            /\ q.status # 400
            /\ Len(q.messages) >= 2
            /\ q.messages[1].role = "system"
            /\ q.messages[1].content \in
                   { Some(PersonaPrompt(q.role)),
                     Some(PersonaPrompt(q.role) \o ConciseSuffix) }

\* The text has no '*'.
NoStar(t) == \A i \in 1..Len(t) : t[i] # Star

\* C16: the text returned by /init and by /chat, and every assistant entry of
\* every stored history, has no '*', whatever the completion API returned.
C16_NoStarInTexts ==
    /\ (last.kind \in {"init", "chat"} /\ last.text # None) => NoStar(last.text[1])
    /\ \A s \in SessionIds :
          LET stored == StoredOrEmpty(heap, chatHistory, s)
          IN \A i \in 1..Len(stored) :
                (stored[i].role = "assistant" /\ stored[i].content # None)
                    => NoStar(stored[i].content[1])

\* C17: the greeting returned by a successful /init is not empty.
C17_GreetingNotEmpty ==
    (last.kind = "init" /\ last.status = 200) =>
        /\ last.text # None
        /\ last.text[1] # <<>>

\* The entries a copy keeps of a history: the last 6, all, the last 10.
CutOf(entries) ==
    IF variant = "second" THEN entries ELSE SliceLast(entries, StatedCap)

\* C18: two overlapping /chat requests on a session both read the history
\* before either writes it, and a write stores the history its request read
\* plus its own turn pair, whatever was written in between: where the
\* requests hold arrays of their own (always in part1; in the copies of
\* server.js when the session had no entry) the last write wins and the
\* other request's pair is dropped.
C18_LastWriteWins ==
    [][ \A r \in Slots :
          (req[r].kind = "chat" /\ req[r].pc = "completion"
              /\ req'[r].pc # "completion"
              /\ Settled(r, req', last').text # None
              /\ (variant = "part1" \/ req[r].before = None))
              => Stored(heap', chatHistory', req[r].sessionId) =
                     Some(CutOf(Prior(req[r])
                                \o << Entry("user", req[r].message),
                                      Entry("assistant",
                                            Settled(r, req', last').text) >>))
      ]_vars

\* Two chats on s1 that both found no history and both wrote; the store holds
\* the pair of the one with message n only.
C18_Witness ==
    \E a \in Slots, b \in Slots :
        /\ a # b
        /\ req[a].kind = "chat" /\ req[a].pc = "speech"
        /\ req[b].kind = "chat" /\ req[b].pc = "speech"
        /\ req[a].sessionId = "s1" /\ req[b].sessionId = "s1"
        /\ req[a].before = None /\ req[b].before = None
        /\ req[a].message = Some(<<"m">>) /\ req[b].message = Some(<<"n">>)
        /\ Stored(heap, chatHistory, "s1") =
               Some(<< Entry("user", Some(<<"n">>)),
                       Entry("assistant", req[b].text) >>)

\* A request without the marks of having been overlapped.
Unmarked(q) == [q EXCEPT !.overlapped = FALSE, !.cleared = FALSE]

\* The history entries a /chat puts into its completion request, between the
\* system prompt and the new message.
Context(q) == SubSeq(q.messages, 2, Len(q.messages) - 1)

\* C19: a step of a request on session A changes the stored history of no
\* other session, and the completion request of a /chat on A carries, between
\* system prompt and new message, entries of A's own history only.
C19_SessionsIsolated ==
    [][ /\ \A s \in SessionIds :
              StoreValue'[s] # StoreValue[s] =>
                  \/ last'.kind \in {"init", "chat", "clear"}
                        /\ last'.sessionId = s
                  \/ \E r \in Slots :
                        /\ InFlight(req'[r])
                        /\ Unmarked(req'[r]) # Unmarked(req[r])
                        /\ req'[r].sessionId = s
        /\ \A r \in Slots :
              (~InFlight(req[r]) /\ req'[r].kind = "chat"
                  /\ req'[r].pc = "completion")
                  => LET own == StoredOrEmpty(heap, chatHistory,
                                              req'[r].sessionId)
                     IN Context(req'[r]) =
                            IF variant = "first" THEN SliceLast(own, 4) ELSE own
      ]_vars

\* A /chat on s1 was answered while a request on the session with the empty
\* id is in flight and the two sessions hold different histories.
C19_Witness ==
    /\ last.kind = "chat" /\ last.status = 200 /\ last.sessionId = "s1"
    /\ \E r \in Slots : InFlight(req[r]) /\ req[r].sessionId = ""
    /\ Len(StoredOrEmpty(heap, chatHistory, "")) > 0
    /\ Len(StoredOrEmpty(heap, chatHistory, "s1")) > 0
    /\ Stored(heap, chatHistory, "") # Stored(heap, chatHistory, "s1")

\* C20: a /chat with speech on whose reply was split into several chunks is
\* answered only when every chunk's synthesis call has resolved or failed;
\* none is outstanding in the answered request, also when a chunk failed.
C20_AllChunksSettled ==
    (last.kind = "chat" /\ Len(last.speech) > 1)
        => \A i \in 1..Len(last.speech) : last.speech[i].st # "pending"

\* C21: while the request in slot 1 waits for an outbound call that does not
\* return, the server still accepts a request, and a request in flight beside
\* it is answered once its own calls settle.
C21_StallBlocksOnlyIssuer ==
    /\ []((InFlight(req[1]) /\ ~InFlight(req[2]) /\ budget > 0)
            => ENABLED Arrives(2))
    /\ (InFlight(req[2]) ~> ~InFlight(req[2]))

\* Two requests arrived; the first still waits for its completion call, and a
\* /chat on the same session that arrived after it was answered 200.
C21_Witness ==
    /\ budget = MaxRequests - 2
    /\ req[1].pc = "completion" /\ ~InFlight(req[2])
    /\ last.kind = "chat" /\ last.status = 200 /\ last.overlapped
    /\ last.sessionId = req[1].sessionId

\* The system message a /chat is to send for its role: the prompt of the
\* resolved persona, in the first copy followed by its fixed sentence.
SystemMessage(role) ==
    IF variant = "first"
    THEN Entry("system", Some(ConciseSystem(Some(PersonaPrompt(role)))))
    ELSE Entry("system", Some(PersonaPrompt(role)))

\* C22: the completion request of every /chat is one system message built
\* from the resolved persona's prompt, then a suffix of at most N entries of
\* the history the request read, in stored order, then the new user message,
\* and nothing else.
C22_CompletionRequestShape ==
    \A q \in Requests :
        (q.kind = "chat" /\ q.completionCalls > 0) =>
            /\ Len(q.messages) >= 2
            /\ q.messages[1] = SystemMessage(q.role)
            /\ q.messages[Len(q.messages)] = Entry("user", q.message)
            /\ \E k \in 0..StatedCap : Context(q) = SliceLast(Prior(q), k)

\* The voice settings of a request's own body as generateSpeech sends them: a
\* given number other than 0, and one half otherwise; /init gives none.
OwnSettings(q) ==
    LET own(x) == IF q.kind # "chat" \/ x \in {None, Some([num |-> 0, den |-> 2])}
                  THEN [num |-> 1, den |-> 2]
                  ELSE x[1]
    IN [stability |-> own(q.stability),
        similarity_boost |-> own(q.similarity_boost)]

\* C23: a step that answers /voice-settings, /transcribe or /health leaves
\* every session's stored history as it is; a step that changes the store is
\* a step of an /init, a /chat or a /clear-history; and every speech call
\* carries the voice settings of its own request's body, whatever
\* /voice-settings accepted before.
C23_StoreOwnedByOrchestrator ==
    [][ /\ last'.kind \in {"voice", "transcribe", "health"}
              => StoreValue' = StoreValue
        /\ StoreValue' # StoreValue =>
              \/ last'.kind \in {"init", "chat", "clear"}
              \/ \E r \in Slots :
                    /\ InFlight(req'[r])
                    /\ Unmarked(req'[r]) # Unmarked(req[r])
        /\ \A q \in {last'} \cup {req'[r] : r \in Slots} :
              \A i \in 1..Len(q.speech) :
                  q.speech[i].voice_settings = OwnSettings(q)
      ]_vars

\* /voice-settings accepted a stability of 1 while a /chat that sent no voice
\* settings has its speech call outstanding with the default settings, and
\* the store holds that chat's turns.
C23_Witness ==
    /\ last.kind = "voice" /\ last.status = 200
    /\ last.stability = Some([num |-> 2, den |-> 2])
    /\ \E r \in Slots :
          /\ req[r].kind = "chat" /\ req[r].pc = "speech"
          /\ req[r].stability = None
          /\ req[r].speech[1].voice_settings.stability = [num |-> 1, den |-> 2]
          /\ Len(StoredOrEmpty(heap, chatHistory, req[r].sessionId)) = 2

\* The /init just answered had a valid role and its completion call failed.
InitCallFailed(q) == q.kind = "init" /\ q.role \in RoleKeys /\ q.failed

\* C24 as stated: an /init with a valid role whose completion call fails is
\* answered 500 and the session's stored history is then the empty sequence,
\* whatever it held before.
C24_FailedInitLeavesEmpty ==
    InitCallFailed(last) =>
        /\ last.status = 500
        /\ Stored(heap, chatHistory, last.sessionId) = Some(<<>>)

\* C24 amended: the same, for an /init that overlaps no other request on the
\* session.
C24_FailedInitLeavesEmptyAlone ==
    (InitCallFailed(last) /\ ~last.overlapped) =>
        /\ last.status = 500
        /\ Stored(heap, chatHistory, last.sessionId) = Some(<<>>)

\* A failed /init, alone on a session that held entries before it, has left
\* the session with an empty history.
C24_Witness ==
    /\ InitCallFailed(last) /\ ~last.overlapped
    /\ last.status = 500
    /\ Len(Prior(last)) > 0
    /\ Stored(heap, chatHistory, last.sessionId) = Some(<<>>)

\* The /chat just answered is one whose completion call failed.
ChatCallFailed(q) == q.kind = "chat" /\ q.failed

\* C25 as stated: when the completion call of a /chat fails, the session's
\* stored history is as it was when the request started (absent if it was
\* absent) and the request issued no speech call.
C25_FailedChatStoreAsAtStart ==
    ChatCallFailed(last) =>
        /\ Stored(heap, chatHistory, last.sessionId) = last.before
        /\ last.speech = <<>>

\* C25 amended: neither the step that starts a /chat nor the step in which
\* its completion call fails changes the store, and the failed request issued
\* no speech call; when no other request on the session overlapped it, the
\* session's stored history is as it was when the request started.
C25_FailedChatChangesNothing ==
    [][ /\ \A r \in Slots :
              (~InFlight(req[r]) /\ req'[r].kind = "chat" /\ InFlight(req'[r]))
                  => StoreValue' = StoreValue
        /\ ChatCallFailed(last') =>
              /\ StoreValue' = StoreValue
              /\ last'.speech = <<>> /\ last'.audio = <<>>
              /\ last'.status \in {429, 500}
              /\ ~last'.overlapped =>
                     Stored(heap', chatHistory', last'.sessionId) = last'.before
      ]_vars

\* A /chat on a session without an entry was turned away with 429 after a
\* rate-limit failure, and the session still has no entry.
C25_Witness ==
    /\ ChatCallFailed(last) /\ ~last.overlapped
    /\ last.status = 429
    /\ last.before = None
    /\ Stored(heap, chatHistory, last.sessionId) = None
    /\ last.speech = <<>>

\* The two turns of the chat of slot r that wrote in this step.
TurnPair(q, answered) ==
    << Entry("user", q.message), Entry("assistant", answered.text) >>

\* C26: when a /chat that read an entry of session s completes after a
\* /clear-history on s ran during its completion call, it stores the array
\* it holds, which begins with the history it read, plus its turn pair (cut
\* to the cap): s has an entry again, with turns from before the clear.
C26_ClearUndoneByChat ==
    [][ \A r \in Slots :
          (req[r].kind = "chat" /\ req[r].pc = "completion"
              /\ req[r].cleared /\ req[r].before # None
              /\ req'[r].pc # "completion"
              /\ Settled(r, req', last').text # None)
              => LET held == heap[req[r].history]
                     read == Prior(req[r])
                 IN /\ SubSeq(held, 1, Len(read)) = read
                    /\ Stored(heap', chatHistory', req[r].sessionId) =
                           Some(CutOf(held
                                      \o TurnPair(req[r],
                                                  Settled(r, req', last'))))
      ]_vars

\* A /chat that read the three-entry seed of s1 and during whose completion
\* call s1 was cleared has written: s1 holds the seed and the chat's pair.
C26_Witness ==
    \E r \in Slots :
        /\ req[r].kind = "chat" /\ req[r].pc = "speech"
        /\ req[r].cleared /\ req[r].sessionId = "s1"
        /\ Len(Prior(req[r])) = 3
        /\ Stored(heap, chatHistory, "s1") =
               Some(Prior(req[r]) \o TurnPair(req[r], req[r]))

\* The session of slot r's request holds a seed in an array other than the
\* one that request holds: an /init has reset the session since the read.
SeedSinceRead(r) ==
    LET q == req[r]
        stored == StoredOrEmpty(heap, chatHistory, q.sessionId)
    IN /\ chatHistory[q.sessionId] # 0
       /\ chatHistory[q.sessionId] # q.history
       /\ Len(stored) = 3 /\ stored[1].role = "system"

\* C27: a /chat that read the session's history before an /init reset it and
\* whose completion call returns after that /init stored its seed replaces
\* the seed by the last N entries of the history it holds plus its own turn
\* pair; and the step in which an /init's completion call returns stores the
\* seed over whatever a /chat wrote since the reset.
C27_InitNotAtomic ==
    [][ \A r \in Slots :
          /\ (req[r].kind = "chat" /\ req[r].pc = "completion"
                 /\ req'[r].pc # "completion"
                 /\ Settled(r, req', last').text # None
                 /\ SeedSinceRead(r))
                 => Stored(heap', chatHistory', req[r].sessionId) =
                        Some(SliceLast(heap[req[r].history]
                                          \o TurnPair(req[r],
                                                      Settled(r, req', last')),
                                       StatedCap))
          /\ (req[r].kind = "init" /\ req[r].pc = "completion"
                 /\ req'[r].pc # "completion"
                 /\ Settled(r, req', last').text # None)
                 => SeedIn(heap', chatHistory', Settled(r, req', last'))
      ]_vars

\* A well-formed history: an optional leading system entry, which then is
\* the seed's and is followed by the greeting request, and after it user and
\* assistant entries in turn, beginning with user and ending with assistant.
WellFormed(h) ==
    LET seeded == Len(h) > 0 /\ h[1].role = "system"
        body == IF seeded THEN Tail(h) ELSE h
    IN /\ \A i \in 1..Len(body) :
              body[i].role = IF i % 2 = 1 THEN "user" ELSE "assistant"
       /\ Len(body) % 2 = 0
       /\ seeded => (Len(h) >= 3 /\ h[2] = Entry("user", Some(GreetingRequest)))

\* C28: in every reachable state every stored history is well-formed: a
\* system entry only in front, as part of the seed, then user and assistant
\* entries strictly in turn starting with user, the last entry an assistant
\* entry; also after the cut to the cap, which therefore splits no pair.
C28_HistoriesWellFormed ==
    \A s \in SessionIds :
        chatHistory[s] # 0 => WellFormed(heap[chatHistory[s]])

\* The first copy has cut the seed's system entry off a five-entry history
\* that got two more entries: six entries are stored, beginning with a user
\* entry and ending with the new pair.
C28_Witness ==
    /\ variant = "first"
    /\ \E r \in Slots :
          /\ req[r].kind = "chat" /\ req[r].pc = "speech"
          /\ Len(Prior(req[r])) = 5 /\ Prior(req[r])[1].role = "system"
          /\ LET stored == StoredOrEmpty(heap, chatHistory, req[r].sessionId)
             IN /\ Len(stored) = FirstCap
                /\ stored[1].role = "user"
                /\ SubSeq(stored, 5, 6) = TurnPair(req[r], req[r])

\* C29: the audio a /chat with ttsEnabled true returns is all or nothing:
\* the audio of every chunk, in the order of the chunks, when every speech
\* call succeeded, and no audio at all otherwise; never the audio of some
\* chunks only.
C29_AudioAllOrNothing ==
    (last.kind = "chat" /\ last.status = 200 /\ last.ttsEnabled = "true") =>
        LET n == Len(last.speech)
            allOk == \A i \in 1..n : last.speech[i].st = "ok"
        IN /\ Len(last.audio) \in {0, n}
           /\ ~allOk => last.audio = <<>>
           /\ allOk => last.audio = [i \in 1..n |-> Audio(last.speech[i].text)]

\* Two of three chunks were synthesized, the third call failed, and the
\* response carries no audio.
C29_Witness ==
    /\ last.kind = "chat" /\ last.status = 200 /\ last.ttsEnabled = "true"
    /\ Len(last.speech) = 3
    /\ last.speech[1].st = "ok" /\ last.speech[2].st = "ok"
    /\ last.speech[3].st = "failed"
    /\ last.audio = <<>>

\* A request that has been answered, once.
AnsweredOnce(q) ==
    q.pc = "done" /\ q.sent = 1 /\ q.status \in {200, 400, 429, 500}

\* C30: every request is answered exactly once. No request is answered
\* twice, and none is answered while it stays in flight; a request that
\* arrives is answered at once or is in flight; a request that leaves flight
\* is the one answered in that step; and a request in flight is eventually
\* answered when its outbound calls settle.
C30_ExactlyOneResponse ==
    /\ [](/\ \A r \in Slots : req[r].sent = 0 /\ req[r].pc # "done"
          /\ last.kind # "none" => AnsweredOnce(last))
    /\ [][ /\ budget' < budget =>
                 \/ last'.kind # "none"
                 \/ \E r \in Slots : ~InFlight(req[r]) /\ InFlight(req'[r])
           /\ \A r \in Slots :
                 (InFlight(req[r]) /\ ~InFlight(req'[r])) =>
                     /\ AnsweredOnce(last')
                     /\ last'.kind = req[r].kind
                     /\ last'.sessionId = req[r].sessionId
                     /\ last'.message = req[r].message
         ]_vars
    /\ \A r \in Slots : InFlight(req[r]) ~> ~InFlight(req[r])

\* A /chat was turned away with 429 after its one completion call, answered
\* once.
C30_Witness ==
    /\ last.kind = "chat" /\ last.status = 429
    /\ last.completionCalls = 1
    /\ last.sent = 1

\* Slot a's /chat writes in this step: its completion call returned a reply.
Writes(a) ==
    /\ req[a].kind = "chat" /\ req[a].pc = "completion"
    /\ req'[a].pc # "completion"
    /\ Settled(a, req', last').text # None

\* C31: in the first copy of server.js, when a /chat writes, every other
\* /chat that awaits its completion call holding the same array, read from
\* an existing entry, finds the writer's turn pair appended to the array it
\* holds; and a /chat that writes stores the last 6 entries of the array it
\* holds followed by its own pair. So of two chats that read the same entry
\* the second to complete stores the history as read, the pair of the first
\* and its own pair, cut to the last 6.
C31_SharedArrayKeepsBoth ==
    [][ variant = "first" =>
          \A a \in Slots :
              Writes(a) =>
                  /\ \A b \in Slots \ {a} :
                        (req[b].kind = "chat" /\ req[b].pc = "completion"
                            /\ req[b].before # None
                            /\ req[b].history = req[a].history)
                            => /\ req'[b].history = req[b].history
                               /\ heap'[req[b].history] =
                                      heap[req[b].history]
                                          \o TurnPair(req[a],
                                                      Settled(a, req', last'))
                  /\ Stored(heap', chatHistory', req[a].sessionId) =
                         Some(SliceLast(heap[req[a].history]
                                            \o TurnPair(req[a],
                                                        Settled(a, req', last')),
                                        FirstCap))
      ]_vars

\* In the first copy two chats that both read the three-entry seed of s1 have
\* both written, the one with message m first: s1 holds the last 6 of the
\* seed, the pair of m and the pair of n.
C31_Witness ==
    /\ variant = "first"
    /\ \E a \in Slots, b \in Slots :
          /\ a # b
          /\ req[a].kind = "chat" /\ req[a].pc = "speech"
          /\ req[b].kind = "chat" /\ req[b].pc = "speech"
          /\ req[a].message = Some(<<"m">>) /\ req[b].message = Some(<<"n">>)
          /\ req[a].before = req[b].before /\ Len(Prior(req[a])) = 3
          /\ Stored(heap, chatHistory, "s1") =
                 Some(SliceLast(Prior(req[a]) \o TurnPair(req[a], req[a])
                                    \o TurnPair(req[b], req[b]),
                                FirstCap))

====
